---- MODULE Spec2Model ----
(***************************************************************************)
(* Model of the SFTP client of sftpc.go: the session (ssh transport handle *)
(* plus sftp protocol handle), the resumable transfers built on it, and    *)
(* the recursive remote directory creation.                                *)
(*                                                                         *)
(* Library calls (ssh.Dial, sftp.NewClient, Stat, Open, io.Copy, Mkdir)    *)
(* are the environment: each call's outcome is an input of the action that *)
(* makes the call, drawn with \E from the outcomes the library can give.   *)
(***************************************************************************)
EXTENDS Integers, Sequences, FiniteSets, TLC

(* ------------------------------ bounds --------------------------------- *)
\* handles (transport or protocol) that can be created in one behaviour
MaxHandles == 4
\* transfers (uploads, downloads) started in one behaviour
MaxOps == 2
\* longest file, in bytes
MaxLen == 2
\* largest n passed to a direct ensureConnectedWithRetries call
MaxRetryArg == 3
\* longest path string handed to CreateRemoteDirRecursive, in characters
MaxPathLen == 5
\* most entries (files and directories) of the tree WalkFile walks
MaxNodes == 3
\* handles that can be created in a behaviour of one download: the pair it
\* starts with and a pair for each of its three rounds of reconnects
MaxBudgetHandles == 8
\* connection handles two concurrent callers can open
MaxRaceHandles == 6

(* ------------------------- program constants --------------------------- *)
\* retries argument of ensureConnectedWithRetries in the download functions
DownloadReconnectRetries == 3
\* bound of the retry loop of DownloadFile
DownloadCopyAttempts == 3
\* size of the copy buffer of the progress variants
BufSize == 32768

\* the nil handle
NIL == 0
\* the nil error; an error is the chain of its messages, outermost first
NoErr == <<>>

Min(a, b) == IF a < b THEN a ELSE b

VARIABLES
    client,        \* TRUE once NewSFTPClient has returned a client
    keySource,     \* params: "none", "path" (privateKeyPath), "b64" (privateKeyB64)
    sshClient,     \* client.sshClient: a handle id or NIL
    sftpClient,    \* client.sftpClient: a handle id or NIL
    handles,       \* every handle id: "none" (not created), "open", "closed"
    localFile,     \* the local file: [exists, data]
    remoteFile,    \* the remote file: [exists, data]
    remoteDenied,  \* TRUE when the server answers stat of the file with permission denied
    pc,            \* position of the caller inside the running operation
    op,            \* the running (or last finished) operation
    ret,           \* its returned error, NoErr for nil
    calls,         \* how many calls of each kind it has made so far
    errs,          \* how many of them returned an error
    lastErr,       \* the error of the latest of them that failed
    log,           \* its directory calls (FolderExists, MakeDir, ReadDir, walkFn) in order
    before,        \* the two files as they were when it started
    prev,          \* the operation before it: [op, clean], clean when it returned
                   \* nil and none of its library calls failed
    failed,        \* TRUE once a library call of the running operation has failed
    ops,           \* transfers started so far
    written,       \* bytes the running operation has written to its destination
    ecN, ecI,      \* ensureConnectedWithRetries: retries, i
    ecFrom,        \* the call site ensureConnectedWithRetries returns to
    retries,       \* DownloadFile: retries of the copy loop
    fileConn,      \* the sftp handle the open remote file belongs to
    offset,        \* read offset of the open source file
    totalBytesRead,\* progress variants: totalBytesRead
    percent,       \* progress variants: percent, as last printed
    dirs,          \* remote directories that exist, as path strings
    path,          \* CreateRemoteDirRecursive: remoteBasePath
    comps,         \* CreateRemoteDirRecursive: dirs, the split path
    idx,           \* CreateRemoteDirRecursive: index of the next component
    currentPath,   \* CreateRemoteDirRecursive: currentPath
    tree,          \* WalkFile: what the server holds, as the listing of its root
    walkPath,      \* WalkFile: remotePath of the outermost call
    stack,         \* WalkFile: the frames of the nested calls, innermost last
    walkErr,       \* WalkFile: the error the innermost call is returning
    files,         \* remote files that exist, as path strings
    result,        \* the value the last remote filesystem operation returned
    mutexed,       \* TRUE when the callers hold a mutex around each operation
    lock,          \* the caller that holds the mutex, 0 when it is free
    cpc,           \* concurrent callers: the position of each in its operation
    loc            \* concurrent callers: the locals of each

sessVars == <<client, keySource, sshClient, sftpClient, handles>>
fileVars == <<localFile, remoteFile, remoteDenied>>
callVars == <<pc, op, ret, calls, errs, lastErr, log, before, prev, failed, ops, written>>
ecVars == <<ecN, ecI, ecFrom>>
xferVars == <<retries, fileConn, offset, totalBytesRead, percent>>
dirVars == <<dirs, path, comps, idx, currentPath>>
walkVars == <<tree, walkPath, stack, walkErr>>
fsVars == <<files, result>>
raceVars == <<mutexed, lock, cpc, loc>>
vars == <<sessVars, fileVars, callVars, ecVars, xferVars, dirVars, walkVars,
          fsVars, raceVars>>

(* ------------------------------ errors --------------------------------- *)
\* an operation that returns no value beside its error, or nil
NoResult == <<>>

\* fmt.Errorf("msg: %w", err)
Wrap(msg, err) == <<msg>> \o err

\* one call the running operation makes: what is called, the error it
\* returns and, for a directory call, the path it is given
Ev(name, err, arg) == [ev |-> name, err |-> err, arg |-> arg]

CallNames == {"ReConnect", "ensureConnected", "Stat", "LocalStat", "Open",
              "OpenLocal", "Copy", "Chunk", "EOF", "FolderExists", "MakeDir",
              "ReadDir", "walkFn", "Remove", "Rename", "Mkdir", "RemoveDirectory"}
DirCalls == {"FolderExists", "MakeDir", "ReadDir", "walkFn"}
NoCalls == [n \in CallNames |-> 0]

\* the counts c after the calls events
Count(events, c) ==
    [n \in CallNames |-> c[n] + Cardinality({i \in DOMAIN events : events[i].ev = n})]

\* those of events that failed
Failed(events) == SelectSeq(events, LAMBDA e : e.err # NoErr)

\* the error of the last failed call of events, e if none failed
LastErr(events, e) ==
    LET bad == {i \in DOMAIN events : events[i].err # NoErr}
    IN IF bad = {} THEN e ELSE events[CHOOSE i \in bad : \A j \in bad : j <= i].err

IsDirCall(e) == e.ev \in DirCalls

\* the first calls of an operation
Record(events) ==
    /\ calls' = Count(events, NoCalls)
    /\ errs' = Count(Failed(events), NoCalls)
    /\ lastErr' = LastErr(events, NoErr)
    /\ log' = SelectSeq(events, IsDirCall)

(* ------------------------------ session -------------------------------- *)
Session == [ssh |-> sshClient, sftp |-> sftpClient, h |-> handles]

\* handle.Close(): closing a closed handle leaves it closed
CloseHandle(h, id) == IF id = NIL THEN h ELSE [h EXCEPT ![id] = "closed"]

FreeIds(h) == {i \in DOMAIN h : h[i] = "none"}
NewId(h) == CHOOSE i \in FreeIds(h) : \A j \in FreeIds(h) : i <= j

\* steps at which connecting can fail, and success
ConnectOutcomes ==
    (IF keySource = "path" THEN {"readkey"} ELSE {})
    \cup (IF keySource # "none" THEN {"parsekey"} ELSE {})
    \cup {"dial", "sftp", "ok"}

ConnectError(out) ==
    CASE out = "readkey" -> <<"failed to read private key", "io">>
      [] out = "parsekey" -> <<"failed to parse private key", "ssh">>
      [] out = "dial" -> <<"failed to dial", "net">>
      [] out = "sftp" -> <<"failed to create SFTP client", "sftp">>
      [] OTHER -> NoErr

\* handles a connect attempt with this outcome creates
Needs(out) == CASE out = "ok" -> 2 [] out = "sftp" -> 1 [] OTHER -> 0

\* the dial and sftp.NewClient part shared by NewSFTPClient and ReConnect:
\* the handles after it and the pair it hands back (NIL, NIL on failure)
Dial(h, out) ==
    IF out = "sftp"
    THEN [h |-> [h EXCEPT ![NewId(h)] = "closed"], ssh |-> NIL, sftp |-> NIL]
    ELSE IF out = "ok"
    THEN LET a == NewId(h)
             h1 == [h EXCEPT ![a] = "open"]
             b == NewId(h1)
         IN [h |-> [h1 EXCEPT ![b] = "open"], ssh |-> a, sftp |-> b]
    ELSE [h |-> h, ssh |-> NIL, sftp |-> NIL]

\* ReConnect with a cleanup that forgets the transport: on failure it sets
\* client.sftpClient = nil and leaves client.sshClient
ReConnectNilsProtocolOnly(s, out) ==
    LET h1 == CloseHandle(CloseHandle(s.h, s.sftp), s.ssh)
        d == Dial(h1, out)
    IN IF out = "ok"
       THEN [s |-> [ssh |-> d.ssh, sftp |-> d.sftp, h |-> d.h], err |-> NoErr]
       ELSE [s |-> [ssh |-> s.ssh, sftp |-> NIL, h |-> d.h],
             err |-> ConnectError(out)]

\* ReConnect without the two Close calls at its start
ReConnectKeepsOldPair(s, out) ==
    LET d == Dial(s.h, out)
    IN IF out = "ok"
       THEN [s |-> [ssh |-> d.ssh, sftp |-> d.sftp, h |-> d.h], err |-> NoErr]
       ELSE [s |-> [ssh |-> s.ssh, sftp |-> s.sftp, h |-> d.h],
             err |-> ConnectError(out)]

\* client.ReConnect() on session s: the session after it and the error
ReConnect(s, out) ==
    LET h1 == CloseHandle(CloseHandle(s.h, s.sftp), s.ssh)
        d == Dial(h1, out)
    IN IF out = "ok"
       THEN [s |-> [ssh |-> d.ssh, sftp |-> d.sftp, h |-> d.h], err |-> NoErr]
       ELSE [s |-> [ssh |-> s.ssh, sftp |-> s.sftp, h |-> d.h],
             err |-> ConnectError(out)]

\* client.sftpClient.ReadDir(".") and every other remote call: it works only
\* on open handles, and then only if the network does (netOk)
RemoteCallOk(s, netOk) ==
    /\ netOk
    /\ s.sftp # NIL /\ s.h[s.sftp] = "open"
    /\ s.ssh # NIL /\ s.h[s.ssh] = "open"

\* client.isConnected()
isConnected(s, netOk) ==
    /\ client
    /\ s.sftp # NIL
    /\ s.ssh # NIL
    /\ RemoteCallOk(s, netOk)

\* client.ensureConnected()
ensureConnected(s, netOk, out) ==
    IF isConnected(s, netOk)
    THEN [s |-> s, err |-> NoErr]
    ELSE ReConnect(s, out)

\* inputs of one ensureConnected call: the probe's network outcome and, when
\* it reconnects, the step the reconnect gets to; a probe that succeeds takes
\* no reconnect outcome, and a reconnect needs its handles within MaxHandles
EnsureInputs(s) ==
    {in \in [net : BOOLEAN, out : ConnectOutcomes] :
        /\ isConnected(s, in.net) => in.out = "ok"
        /\ ~isConnected(s, in.net) =>
              Needs(in.out) <= Cardinality(FreeIds(s.h))}

SetSession(s) ==
    /\ sshClient' = s.ssh
    /\ sftpClient' = s.sftp
    /\ handles' = s.h
    /\ UNCHANGED <<client, keySource>>

(* -------------------------- the caller's frame -------------------------- *)
NoFile == [exists |-> FALSE, data |-> <<>>]
File(d) == [exists |-> TRUE, data |-> d]

\* a caller starts operation name on the constructed client
Begin(name) ==
    /\ pc = "idle"
    /\ client
    /\ op' = name
    /\ prev' = [op |-> op, clean |-> (ret = NoErr /\ ~failed)]
    /\ before' = [local |-> localFile, remote |-> remoteFile]
    /\ written' = 0

\* the operation goes on: only its position, result and log move
Step(nextpc, err, events, fails) ==
    /\ pc' = nextpc
    /\ ret' = err
    /\ calls' = Count(events, calls)
    /\ errs' = Count(Failed(events), errs)
    /\ lastErr' = LastErr(events, lastErr)
    /\ log' = log \o SelectSeq(events, IsDirCall)
    /\ failed' = (failed \/ fails)
    /\ UNCHANGED <<op, prev, before, ops>>

\* a caller starts transfer name, within the budget of transfers
BeginTransfer(name) ==
    /\ ops < MaxOps
    /\ ops' = ops + 1
    /\ Begin(name)

\* the locals of the operation that returned before are gone
ResetEc == ecN' = 0 /\ ecI' = 0 /\ ecFrom' = "direct"
\* no percentage printed yet
NoPercent == <<>>

ResetXfer == /\ retries' = 0 /\ fileConn' = NIL /\ offset' = 0 /\ totalBytesRead' = 0
             /\ percent' = NoPercent

(* ---------------------- NewSFTPClient, Close, ReConnect ----------------- *)
\* NewSFTPClient(opts...): no client is returned unless both handles exist
NewSFTPClient ==
    /\ pc = "idle"
    /\ ~client
    /\ \E out \in ConnectOutcomes :
          /\ Needs(out) <= Cardinality(FreeIds(handles))
          /\ LET d == Dial(handles, out)
             IN /\ handles' = d.h
                /\ client' = (out = "ok")
                /\ sshClient' = d.ssh
                /\ sftpClient' = d.sftp
                /\ ret' = ConnectError(out)
    /\ op' = "NewSFTPClient"
    /\ Record(<<>>)
    /\ UNCHANGED <<keySource, pc, before, prev, failed, ops, written>>
    /\ UNCHANGED <<fileVars, ecVars, xferVars, dirVars>>
    /\ UNCHANGED <<walkVars, fsVars, raceVars>>

\* client.Close()
Close ==
    /\ Begin("Close")
    /\ UNCHANGED ops
    /\ handles' = CloseHandle(CloseHandle(handles, sftpClient), sshClient)
    /\ pc' = "idle"
    /\ ret' = NoErr
    /\ Record(<<>>)
    /\ failed' = FALSE
    /\ UNCHANGED <<client, keySource, sshClient, sftpClient>>
    /\ ResetEc /\ ResetXfer
    /\ UNCHANGED <<fileVars, dirVars>>
    /\ UNCHANGED <<walkVars, fsVars, raceVars>>

\* a caller calls client.ReConnect()
ReConnectCall ==
    /\ Begin("ReConnect")
    /\ UNCHANGED ops
    /\ \E out \in ConnectOutcomes :
          /\ Needs(out) <= Cardinality(FreeIds(handles))
          /\ LET r == ReConnect(Session, out)
             IN /\ SetSession(r.s)
                /\ ret' = r.err
                /\ Record(<<Ev("ReConnect", r.err, <<>>)>>)
                /\ failed' = (r.err # NoErr)
    /\ pc' = "idle"
    /\ ResetEc /\ ResetXfer
    /\ UNCHANGED <<fileVars, dirVars>>
    /\ UNCHANGED <<walkVars, fsVars, raceVars>>

\* a call of client.ensureConnected() on its own
EnsureConnectedCall ==
    /\ Begin("ensureConnected")
    /\ UNCHANGED ops
    /\ \E in \in EnsureInputs(Session) :
          LET r == ensureConnected(Session, in.net, in.out)
          IN /\ SetSession(r.s)
             /\ ret' = r.err
             /\ Record(<<Ev("ensureConnected", r.err, <<>>)>>)
             /\ failed' = (r.err # NoErr)
    /\ pc' = "idle"
    /\ ResetEc /\ ResetXfer
    /\ UNCHANGED <<fileVars, dirVars>>
    /\ UNCHANGED <<walkVars, fsVars, raceVars>>

(* --------------------- ensureConnectedWithRetries ----------------------- *)
\* the loop with an off-by-one bound: i <= retries
EcwrMoreOffByOne == ecI <= ecN

\* for i := 0; i < retries; i++
EcwrMore == ecI < ecN

\* the error returned after the loop
EcwrError == <<"failed to reconnect after attempts">>

\* ensureConnectedWithRetries returns err to its call site:
\*   "direct"   a call of its own
\*   "download" the liveness step of DownloadFile / DownloadFileWithProgress
\*   "retry"    the reconnect inside the copy loop of DownloadFile
EcwrReturn(err, events, fails) ==
    CASE ecFrom = "direct" ->
            /\ Step("idle", err, events, fails)
            /\ UNCHANGED retries
      [] ecFrom = "download" ->
            /\ IF err # NoErr
               THEN Step("idle", Wrap("failed to reconnect", err), events, fails)
               ELSE Step("dl_stat", NoErr, events, fails)
            /\ UNCHANGED retries
      [] ecFrom = "retry" ->
            IF err # NoErr
            THEN /\ Step("idle", Wrap("failed to reconnect", err), events, fails)
                 /\ UNCHANGED retries
            ELSE /\ retries' = retries + 1
                 /\ IF retries + 1 < DownloadCopyAttempts
                    THEN Step("dl_copy", NoErr, events, fails)
                    ELSE Step("idle", NoErr, events, fails)

\* a caller calls client.ensureConnectedWithRetries(n)
EnsureRetriesCall ==
    /\ Begin("ensureConnectedWithRetries")
    /\ UNCHANGED ops
    /\ \E n \in 0..MaxRetryArg : ecN' = n
    /\ ecI' = 0
    /\ ecFrom' = "direct"
    /\ pc' = "ecwr"
    /\ ret' = NoErr
    /\ Record(<<>>)
    /\ failed' = FALSE
    /\ ResetXfer
    /\ UNCHANGED <<sessVars, fileVars, dirVars>>
    /\ UNCHANGED <<walkVars, fsVars, raceVars>>

\* one iteration of the loop: err := client.ensureConnected()
EcwrAttempt ==
    /\ pc = "ecwr"
    /\ EcwrMore
    /\ \E in \in EnsureInputs(Session) :
          LET r == ensureConnected(Session, in.net, in.out)
              e == <<Ev("ensureConnected", r.err, <<>>)>>
          IN /\ SetSession(r.s)
             /\ IF r.err = NoErr
                THEN /\ EcwrReturn(NoErr, e, FALSE)
                     /\ UNCHANGED ecI
                ELSE /\ ecI' = ecI + 1
                     /\ Step("ecwr", NoErr, e, TRUE)
                     /\ UNCHANGED retries
    /\ UNCHANGED <<ecN, ecFrom, written, fileConn, offset, totalBytesRead, percent>>
    /\ UNCHANGED <<fileVars, dirVars>>
    /\ UNCHANGED <<walkVars, fsVars, raceVars>>

\* the loop ran out: return fmt.Errorf("failed to reconnect after %d attempts")
EcwrExhausted ==
    /\ pc = "ecwr"
    /\ ~EcwrMore
    /\ EcwrReturn(EcwrError, <<>>, TRUE)
    /\ UNCHANGED <<ecVars, written, fileConn, offset, totalBytesRead, percent>>
    /\ UNCHANGED <<sessVars, fileVars, dirVars>>
    /\ UNCHANGED <<walkVars, fsVars, raceVars>>

(* ------------------------------- files ---------------------------------- *)
\* The code never reads the value of a byte, only sizes and offsets, so the
\* value of the byte at position i of either file is i: what a transfer can
\* get wrong is which positions of the source end up where.
Data(n) == [i \in 1..n |-> i]
Contents == {Data(n) : n \in 0..MaxLen}
Files == {NoFile} \cup {File(d) : d \in Contents}

\* the bytes of d from offset off (0-based) on, at most n of them
Bytes(d, off, n) == SubSeq(d, off + 1, Min(Len(d), off + n))
\* bytes left to read in d at offset off
Remaining(d, off) == IF off < Len(d) THEN Len(d) - off ELSE 0

\* n, readErr := file.Read(buffer): a read returns at least one byte and at
\* most the buffer while bytes remain, and nothing at the end of the file
ReadSizes(remaining) ==
    IF remaining = 0 THEN {0} ELSE 1..Min(BufSize, remaining)

\* percent := float64(totalBytesRead) / float64(size) * 100, kept exact as
\* the fraction <<totalBytesRead * 100, size>>
Percent(n, size) == <<n * 100, size>>

\* client.sftpClient.Stat(remotePath): "ok", or the kind of its error
RemoteStat(netOk) ==
    IF ~RemoteCallOk(Session, netOk) THEN "other"
    ELSE IF remoteDenied THEN "perm"
    ELSE IF ~remoteFile.exists THEN "notexist"
    ELSE "ok"

StatError(kind) == <<"stat", kind>>

(* ------------------- DownloadFile, DownloadFileWithProgress ------------- *)
DownloadOps == {"DownloadFile", "DownloadFileWithProgress"}

\* err := client.ensureConnectedWithRetries(3)
DownloadBegin ==
    /\ \E name \in DownloadOps : BeginTransfer(name)
    /\ ecN' = DownloadReconnectRetries
    /\ ecI' = 0
    /\ ecFrom' = "download"
    /\ pc' = "ecwr"
    /\ ret' = NoErr
    /\ Record(<<>>)
    /\ failed' = FALSE
    /\ ResetXfer
    /\ UNCHANGED <<sessVars, fileVars, dirVars>>
    /\ UNCHANGED <<walkVars, fsVars, raceVars>>

\* the permission check left out: every stat error is returned
IsPermissionNever(kind) == FALSE

\* os.IsPermission(err) on the error of the remote stat
IsPermission(kind) == kind = "perm"

\* the size comparison left out: the download always goes on
AlreadyDownloadedNever(localSize, remoteSize) == FALSE

\* if localFileSize == remoteFileSize { return nil }
AlreadyDownloaded(localSize, remoteSize) == localSize = remoteSize

\* the resume seek left out: the remote file is read from its start
DownloadSeekStart(localSize) == 0

\* remoteFile.Seek(localFileSize, io.SeekStart)
DownloadSeek(localSize) == localSize

\* the remote stat of a download and what it leads to: return on error or on
\* equal sizes, else open the remote file, seek it, open the local file
\*   net   the network outcome of the remote stat
\*   fail  the first later library call that fails, "none" if none does
\* the counter of the download starts at zero
DownloadProgressStartZero(localFileSize) == 0

\* var totalBytesRead int64 = localFileSize
DownloadProgressStart(localFileSize) == localFileSize

DownloadPrepare(net, fail) ==
    LET st == RemoteStat(net)
        stEv == Ev("Stat", IF st = "ok" THEN NoErr ELSE StatError(st), <<>>)
        remoteSize == Len(remoteFile.data)
        localSize == IF localFile.exists THEN Len(localFile.data) ELSE 0
        copypc == IF op = "DownloadFile" THEN "dl_copy" ELSE "dl_pcopy"
        keep == UNCHANGED <<localFile, xferVars>>
    IN IF st # "ok" /\ IsPermission(st)
       THEN Step("idle", NoErr, <<stEv>>, FALSE) /\ keep
       ELSE IF st # "ok"
       THEN Step("idle", Wrap("failed to get remote file info", StatError(st)),
                 <<stEv>>, TRUE) /\ keep
       ELSE IF fail = "lstat"
       THEN Step("idle", <<"failed to get local file info", "io">>,
                 <<stEv, Ev("LocalStat", <<"io">>, <<>>)>>, TRUE) /\ keep
       ELSE IF localFile.exists /\ AlreadyDownloaded(localSize, remoteSize)
       THEN Step("idle", NoErr, <<stEv, Ev("LocalStat", NoErr, <<>>)>>, FALSE) /\ keep
       ELSE IF fail = "open"
       THEN Step("idle", <<"failed to open remote file", "sftp">>,
                 <<stEv, Ev("LocalStat", NoErr, <<>>), Ev("Open", <<"sftp">>, <<>>)>>,
                 TRUE) /\ keep
       ELSE IF fail = "lopen"
       THEN Step("idle", <<"failed to open or create local file", "io">>,
                 <<stEv, Ev("LocalStat", NoErr, <<>>), Ev("Open", NoErr, <<>>),
                   Ev("OpenLocal", <<"io">>, <<>>)>>, TRUE) /\ keep
       ELSE /\ Step(copypc, NoErr,
                    <<stEv, Ev("LocalStat", NoErr, <<>>), Ev("Open", NoErr, <<>>),
                      Ev("OpenLocal", NoErr, <<>>)>>, FALSE)
            /\ localFile' = IF localSize > 0 THEN localFile ELSE File(<<>>)
            /\ offset' = DownloadSeek(localSize)
            /\ fileConn' = sftpClient
            /\ totalBytesRead' = DownloadProgressStart(localSize)
            /\ percent' = NoPercent
            /\ retries' = 0

DownloadStat ==
    /\ pc = "dl_stat"
    /\ \E net \in BOOLEAN, fail \in {"none", "lstat", "open", "lopen"} :
          DownloadPrepare(net, fail)
    /\ UNCHANGED <<sessVars, remoteFile, remoteDenied, ecVars, dirVars, written>>
    /\ UNCHANGED <<walkVars, fsVars, raceVars>>

\* the open remote file can be read only over the sftp handle it was opened
\* on, while that handle and its transport are open
CanRead == /\ fileConn = sftpClient
           /\ RemoteCallOk(Session, TRUE)

\* the retry test off by one: retries < 3
RetryAfterFailureAlways == retries < DownloadCopyAttempts

\* if retries < 2: reconnect and go round the loop again
RetryAfterFailure == retries < DownloadCopyAttempts - 1

\* one round of the retry loop of DownloadFile: io.Copy(localFile, remoteFile)
\* reads k bytes from the remote file, which moves its offset, and writes j
\* of them to the local file; it either reaches the end of the file having
\* written all it read (ok) or fails, in a read (j = k) or in a write (j < k)
DownloadCopy ==
    /\ pc = "dl_copy"
    /\ \E ok \in BOOLEAN, k \in 0..Remaining(remoteFile.data, offset) :
       \E j \in 0..k :
          /\ ok => (CanRead /\ k = Remaining(remoteFile.data, offset) /\ j = k)
          /\ ~CanRead => k = 0
          /\ localFile' = File(localFile.data \o Bytes(remoteFile.data, offset, j))
          /\ offset' = offset + k
          /\ written' = written + j
          /\ IF ok
             THEN /\ Step("idle", NoErr, <<Ev("Copy", NoErr, <<>>)>>, FALSE)
                  /\ UNCHANGED ecVars
             ELSE IF RetryAfterFailure
             THEN /\ Step("ecwr", NoErr, <<Ev("Copy", <<"io">>, <<>>)>>, TRUE)
                  /\ ecN' = DownloadReconnectRetries
                  /\ ecI' = 0
                  /\ ecFrom' = "retry"
             ELSE /\ Step("idle", <<"failed to copy file to local after 3 retries", "io">>,
                          <<Ev("Copy", <<"io">>, <<>>)>>, TRUE)
                  /\ UNCHANGED ecVars
    /\ UNCHANGED <<sessVars, remoteFile, remoteDenied, dirVars>>
    /\ UNCHANGED <<retries, fileConn, totalBytesRead, percent>>
    /\ UNCHANGED <<walkVars, fsVars, raceVars>>

\* one round of the read/write loop of DownloadFileWithProgress
DownloadProgressChunk ==
    /\ pc = "dl_pcopy"
    /\ \E n \in ReadSizes(Remaining(remoteFile.data, offset)) :
          \E out \in {"ok", "read", "write"} :
             /\ out = "ok" => CanRead
             /\ out = "write" => (CanRead /\ n > 0)
             /\ IF out = "ok" /\ n > 0
                THEN /\ localFile' = File(localFile.data \o Bytes(remoteFile.data, offset, n))
                     /\ offset' = offset + n
                     /\ written' = written + n
                     /\ totalBytesRead' = totalBytesRead + n
                     /\ percent' = Percent(totalBytesRead + n, Len(remoteFile.data))
                     /\ Step("dl_pcopy", NoErr, <<Ev("Chunk", NoErr, <<>>)>>, FALSE)
                ELSE /\ UNCHANGED <<localFile, offset, written, totalBytesRead, percent>>
                     /\ IF out = "ok"
                        THEN Step("idle", NoErr, <<Ev("EOF", NoErr, <<>>)>>, FALSE)
                        ELSE IF out = "read"
                        THEN Step("idle", <<"failed to read from remote file", "sftp">>,
                                  <<Ev("Chunk", <<"sftp">>, <<>>)>>, TRUE)
                        ELSE Step("idle", <<"failed to write to local file", "io">>,
                                  <<Ev("Chunk", <<"io">>, <<>>)>>, TRUE)
    /\ UNCHANGED <<sessVars, remoteFile, remoteDenied, ecVars, dirVars>>
    /\ UNCHANGED <<retries, fileConn>>
    /\ UNCHANGED <<walkVars, fsVars, raceVars>>

(* --------------------- UploadFile, UploadFileWithProgress --------------- *)
UploadOps == {"UploadFile", "UploadFileWithProgress"}

\* the error of ensureConnected ignored
UploadGoesOnAnyway(err) == TRUE

\* if err != nil { return fmt.Errorf("failed to reconnect: %w", err) }
UploadGoesOn(err) == err = NoErr

\* err := client.ensureConnected(), once
UploadBegin ==
    /\ \E name \in UploadOps : BeginTransfer(name)
    /\ \E in \in EnsureInputs(Session) :
          LET r == ensureConnected(Session, in.net, in.out)
              e == <<Ev("ensureConnected", r.err, <<>>)>>
          IN /\ SetSession(r.s)
             /\ Record(e)
             /\ failed' = (r.err # NoErr)
             /\ IF UploadGoesOn(r.err)
                THEN pc' = "ul_stat" /\ ret' = NoErr
                ELSE pc' = "idle" /\ ret' = Wrap("failed to reconnect", r.err)
    /\ ResetEc /\ ResetXfer
    /\ UNCHANGED <<fileVars, dirVars>>
    /\ UNCHANGED <<walkVars, fsVars, raceVars>>

\* srcFile.Seek(remoteFileSize, io.SeekStart)
UploadSeek(remoteSize) == remoteSize

\* OpenFile(remotePath, O_WRONLY|O_CREATE|O_TRUNC) in UploadFile and
\* sftpClient.Create(remotePath) in UploadFileWithProgress: both create the
\* file if it is missing and truncate it if it is there
OpenRemoteForWrite(f) == File(<<>>)

\* the stats of an upload and what they lead to: return on error, else open
\* the local file, seek it to the remote size, open the remote file
\*   net   the network outcome of the remote stat
\*   fail  the first other library call that fails, "none" if none does
UploadPrepare(net, fail) ==
    LET st == RemoteStat(net)
        stErr == IF st \in {"ok", "notexist"} THEN NoErr ELSE StatError(st)
        stEv == Ev("Stat", IF st = "ok" THEN NoErr ELSE StatError(st), <<>>)
        remoteSize == IF st = "ok" THEN Len(remoteFile.data) ELSE 0
        lstatErr == IF ~localFile.exists THEN <<"notexist">>
                    ELSE IF fail = "lstat" THEN <<"io">> ELSE NoErr
        lopenErr == IF fail = "lopen" THEN <<"io">> ELSE NoErr
        lstatEv == Ev("LocalStat", lstatErr, <<>>)
        lopenEv == Ev("OpenLocal", lopenErr, <<>>)
        \* UploadFile stats the remote file before it opens the local one,
        \* UploadFileWithProgress after
        statFirst == op = "UploadFile"
        copypc == IF op = "UploadFile" THEN "ul_copy" ELSE "ul_pcopy"
        keep == UNCHANGED <<remoteFile, xferVars>>
    IN IF lstatErr # NoErr
       THEN Step("idle", Wrap("failed to get local file info", lstatErr),
                 <<lstatEv>>, TRUE) /\ keep
       ELSE IF statFirst /\ stErr # NoErr
       THEN Step("idle", Wrap("failed to get remote file info", stErr),
                 <<lstatEv, stEv>>, TRUE) /\ keep
       ELSE IF lopenErr # NoErr
       THEN Step("idle", Wrap("failed to open local file", lopenErr),
                 IF statFirst THEN <<lstatEv, stEv, lopenEv>> ELSE <<lstatEv, lopenEv>>,
                 TRUE) /\ keep
       ELSE IF stErr # NoErr
       THEN Step("idle", Wrap("failed to get remote file info", stErr),
                 <<lstatEv, lopenEv, stEv>>, TRUE) /\ keep
       ELSE LET evs == IF statFirst THEN <<lstatEv, stEv, lopenEv>>
                       ELSE <<lstatEv, lopenEv, stEv>>
            IN IF fail = "open"
               THEN Step("idle", <<"failed to open or create remote file", "sftp">>,
                         evs \o <<Ev("Open", <<"sftp">>, <<>>)>>, TRUE) /\ keep
               ELSE /\ Step(copypc, NoErr, evs \o <<Ev("Open", NoErr, <<>>)>>, FALSE)
                    /\ remoteFile' = OpenRemoteForWrite(remoteFile)
                    /\ offset' = UploadSeek(remoteSize)
                    /\ fileConn' = sftpClient
                    /\ totalBytesRead' = 0
                    /\ percent' = NoPercent
                    /\ UNCHANGED retries

UploadStat ==
    /\ pc = "ul_stat"
    /\ \E net \in BOOLEAN, fail \in {"none", "lstat", "lopen", "open"} :
          UploadPrepare(net, fail)
    /\ UNCHANGED <<sessVars, localFile, remoteDenied, ecVars, dirVars, written>>
    /\ UNCHANGED <<walkVars, fsVars, raceVars>>

\* the open remote file can be written only over the sftp handle it was
\* opened on, while that handle and its transport are open
CanWrite == /\ fileConn = sftpClient
            /\ RemoteCallOk(Session, TRUE)

\* _, err = io.Copy(dstFile, srcFile) of UploadFile: writes k bytes and then
\* either reaches the end of the local file (ok) or fails; no retry
UploadCopy ==
    /\ pc = "ul_copy"
    /\ \E ok \in BOOLEAN, k \in 0..Remaining(localFile.data, offset) :
          /\ ok => (CanWrite /\ k = Remaining(localFile.data, offset))
          /\ ~CanWrite => k = 0
          /\ remoteFile' = File(remoteFile.data \o Bytes(localFile.data, offset, k))
          /\ offset' = offset + k
          /\ written' = written + k
          /\ IF ok
             THEN Step("idle", NoErr, <<Ev("Copy", NoErr, <<>>)>>, FALSE)
             ELSE Step("idle", <<"failed to copy file to remote", "io">>,
                       <<Ev("Copy", <<"io">>, <<>>)>>, TRUE)
    /\ UNCHANGED <<sessVars, localFile, remoteDenied, ecVars, dirVars>>
    /\ UNCHANGED <<retries, fileConn, totalBytesRead, percent>>
    /\ UNCHANGED <<walkVars, fsVars, raceVars>>

\* one round of the read/write loop of UploadFileWithProgress
UploadProgressChunk ==
    /\ pc = "ul_pcopy"
    /\ \E n \in ReadSizes(Remaining(localFile.data, offset)) :
          \E out \in {"ok", "read", "write"} :
             /\ (out = "ok" /\ n > 0) => CanWrite
             /\ out = "write" => n > 0
             /\ IF out = "ok" /\ n > 0
                THEN /\ remoteFile' = File(remoteFile.data \o Bytes(localFile.data, offset, n))
                     /\ offset' = offset + n
                     /\ written' = written + n
                     /\ totalBytesRead' = totalBytesRead + n
                     /\ percent' = Percent(totalBytesRead + n, Len(localFile.data))
                     /\ Step("ul_pcopy", NoErr, <<Ev("Chunk", NoErr, <<>>)>>, FALSE)
                ELSE /\ UNCHANGED <<remoteFile, offset, written, totalBytesRead, percent>>
                     /\ IF out = "ok"
                        THEN Step("idle", NoErr, <<Ev("EOF", NoErr, <<>>)>>, FALSE)
                        ELSE IF out = "read"
                        THEN Step("idle", <<"failed to read from local file", "io">>,
                                  <<Ev("Chunk", <<"io">>, <<>>)>>, TRUE)
                        ELSE Step("idle", <<"failed to write to remote file", "sftp">>,
                                  <<Ev("Chunk", <<"sftp">>, <<>>)>>, TRUE)
    /\ UNCHANGED <<sessVars, localFile, remoteDenied, ecVars, dirVars>>
    /\ UNCHANGED <<retries, fileConn>>
    /\ UNCHANGED <<walkVars, fsVars, raceVars>>

(* ----------------------- CreateRemoteDirRecursive ----------------------- *)
\* a path string is the sequence of its characters
Chars == {"/", "a", "b", "."}
Paths == UNION {[1..n -> Chars] : n \in 0..MaxPathLen}

RECURSIVE Split(_)
\* strings.Split(s, "/")
Split(s) ==
    IF \A i \in 1..Len(s) : s[i] # "/"
    THEN <<s>>
    ELSE LET i == CHOOSE j \in 1..Len(s) :
                     s[j] = "/" /\ \A k \in 1..(j - 1) : s[k] # "/"
         IN <<SubSeq(s, 1, i - 1)>> \o Split(SubSeq(s, i + 1, Len(s)))

RECURSIVE JoinSep(_)
\* strings.Join(elems, "/")
JoinSep(elems) ==
    IF elems = <<>> THEN <<>>
    ELSE IF Len(elems) = 1 THEN elems[1]
    ELSE elems[1] \o <<"/">> \o JoinSep(Tail(elems))

RECURSIVE CleanElems(_, _)
\* the elements filepath.Clean keeps of a relative path: "" and "." are
\* dropped, ".." removes the element before it unless there is none or it is
\* ".." itself
CleanElems(elems, out) ==
    IF elems = <<>> THEN out
    ELSE LET e == Head(elems)
         IN IF e = <<>> \/ e = <<".">>
            THEN CleanElems(Tail(elems), out)
            ELSE IF e = <<".", ".">> /\ out # <<>> /\ out[Len(out)] # <<".", ".">>
            THEN CleanElems(Tail(elems), SubSeq(out, 1, Len(out) - 1))
            ELSE CleanElems(Tail(elems), Append(out, e))

\* filepath.Clean(p) for a relative path p
Clean(p) ==
    LET kept == CleanElems(Split(p), <<>>)
    IN IF kept = <<>> THEN <<".">> ELSE JoinSep(kept)

\* filepath.Join(a, b) for non-empty a and b
Join(a, b) == Clean(a \o <<"/">> \o b)

\* the directory the server resolves ".." chains to always exists, and so
\* does "."
ServerHas(p) ==
    \/ p = <<".">>
    \/ \A e \in {Split(p)[i] : i \in 1..Len(Split(p))} : e = <<".", ".">>
    \/ p \in dirs

\* client.FolderExists(remotePath): _, err := Stat(remotePath); err == nil
FolderExists(p, netOk) == RemoteCallOk(Session, netOk) /\ ServerHas(p)

\* Mkdir(p) can succeed only for a missing directory with an existing parent
MkdirCanSucceed(p) ==
    /\ RemoteCallOk(Session, TRUE)
    /\ ~ServerHas(p)
    /\ ServerHas(Join(p, <<".", ".">>))

\* if dir == "" { continue }
SkipComponent(dir) == dir = <<>>

\* the accumulation forgotten: currentPath = dir
NextPathLeafOnly(cur, dir) == dir

\* currentPath after component dir
NextPath(cur, dir) == IF cur = <<>> THEN dir ELSE Join(cur, dir)

\* if !client.FolderExists(currentPath) { client.MakeDir(currentPath) }
NeedsMkdir(exists) == ~exists

\* one round of the loop over the components
CreateDirStep ==
    /\ pc = "crd"
    /\ idx <= Len(comps)
    /\ idx' = idx + 1
    /\ LET dir == comps[idx]
           cur == NextPath(currentPath, dir)
       IN IF SkipComponent(dir)
          THEN /\ Step("crd", NoErr, <<>>, FALSE)
               /\ UNCHANGED <<currentPath, dirs>>
          ELSE /\ currentPath' = cur
               /\ \E net \in BOOLEAN, mk \in BOOLEAN :
                     LET exists == FolderExists(cur, net)
                         chk == Ev("FolderExists", IF exists THEN NoErr ELSE <<"stat">>, cur)
                     IN /\ mk => MkdirCanSucceed(cur)
                        /\ exists => ~mk
                        /\ IF ~NeedsMkdir(exists)
                           THEN /\ Step("crd", NoErr, <<chk>>, FALSE)
                                /\ UNCHANGED dirs
                           ELSE IF mk
                           THEN /\ Step("crd", NoErr, <<chk, Ev("MakeDir", NoErr, cur)>>, FALSE)
                                /\ dirs' = dirs \cup {cur}
                           ELSE /\ Step("idle",
                                        <<"failed to create directory", "failed to create directory", "sftp">>,
                                        <<chk, Ev("MakeDir", <<"sftp">>, cur)>>, TRUE)
                                /\ UNCHANGED dirs
    /\ UNCHANGED <<sessVars, fileVars, ecVars, xferVars, path, comps, written>>
    /\ UNCHANGED <<walkVars, fsVars, raceVars>>

\* the loop is over: return nil
CreateDirDone ==
    /\ pc = "crd"
    /\ idx > Len(comps)
    /\ Step("idle", NoErr, <<>>, FALSE)
    /\ UNCHANGED <<sessVars, fileVars, ecVars, xferVars, dirVars, written>>
    /\ UNCHANGED <<walkVars, fsVars, raceVars>>

(* ------------------------------- WalkFile ------------------------------- *)
\* names of remote entries: file.Name()
WalkNames == {<<"a">>, <<"b">>}

\* What the server holds is the listing of its root directory: the sequence
\* of its entries in the order ReadDir gives them, each entry with its
\* name, whether it is a directory, and, for a directory, its own listing.
\* The login directory of the session is the root, so that a path names the
\* same entry with and without a leading slash.
RECURSIVE Listings(_), Entries(_)
\* the entries that hold n entries, themselves included
Entries(n) ==
    IF n = 1
    THEN {[name |-> m, dir |-> d, sub |-> <<>>] : m \in WalkNames, d \in BOOLEAN}
    ELSE {[name |-> m, dir |-> TRUE, sub |-> l] : m \in WalkNames, l \in Listings(n - 1)}
\* the listings that hold n entries in all, no name twice in a directory
Listings(n) ==
    IF n = 0 THEN {<<>>}
    ELSE UNION {UNION {{<<e>> \o r : r \in {x \in Listings(n - k) :
                                              \A i \in DOMAIN x : x[i].name # e.name}}
                       : e \in Entries(k)}
                : k \in 1..n}
WalkTrees == UNION {Listings(n) : n \in 0..MaxNodes}

\* the paths WalkFile is started on
WalkStarts == {<<"/">>, <<"a">>, <<"/", "a">>}

\* the names a path string leads through, as the server reads it: empty
\* components (doubled or leading slashes) count for nothing
PathNames(p) == SelectSeq(Split(p), LAMBDA c : c # <<>>)

RECURSIVE Lookup(_, _)
\* the entry the names lead to below listing l: whether there is one,
\* whether it is a directory, and its listing
Lookup(l, names) ==
    IF names = <<>> THEN [found |-> TRUE, dir |-> TRUE, sub |-> l]
    ELSE LET hit == {i \in DOMAIN l : l[i].name = Head(names)}
         IN IF hit = {} THEN [found |-> FALSE, dir |-> FALSE, sub |-> <<>>]
            ELSE LET e == l[CHOOSE i \in hit : TRUE]
                 IN IF Len(names) = 1 THEN [found |-> TRUE, dir |-> e.dir, sub |-> e.sub]
                    ELSE IF e.dir THEN Lookup(e.sub, Tail(names))
                    ELSE [found |-> FALSE, dir |-> FALSE, sub |-> <<>>]

\* client.sftpClient.ReadDir(p): the answers the server and the network can
\* give, "ok" or the kind of the error
ReadDirOutcomes(p) ==
    LET e == Lookup(tree, PathNames(p))
    IN IF e.found /\ e.dir /\ RemoteCallOk(Session, TRUE)
       THEN {"ok", "perm", "other"}
       ELSE IF e.found THEN {"perm", "other"}
       ELSE {"notexist", "other"}

ReadDirError(kind) == IF kind = "ok" THEN NoErr ELSE <<"readdir", kind>>

\* os.IsNotExist(err)
IsNotExist(kind) == kind = "notexist"

\* only permission denied is skipped
SkipsListingErrorPermOnly(kind) == IsPermission(kind)

\* the listing errors WalkFile answers with return nil
SkipsListingError(kind) == IsPermission(kind) \/ IsNotExist(kind)

\* normalizedPath: remotePath without its leading slash, unless it is "/"
Normalize(remotePath) ==
    IF Len(remotePath) > 1 /\ remotePath[1] = "/" THEN Tail(remotePath) ELSE remotePath

\* the listing is retried whatever the path
RetriesListingAlways(normalizedPath, remotePath) == TRUE

\* if normalizedPath != remotePath
RetriesListing(normalizedPath, remotePath) == normalizedPath # remotePath

\* the frame of a call WalkFile(remotePath, walkFn) at its entry
Frame(remotePath) ==
    [remote |-> remotePath, norm |-> Normalize(remotePath), files |-> <<>>, i |-> 1]

Top == stack[Len(stack)]
SetTop(f) == [stack EXCEPT ![Len(stack)] = f]

\* fullPath := normalizedPath + "/" + file.Name()
FullPath(normalizedPath, file) == normalizedPath \o <<"/">> \o file.name

\* the error of a nested call is dropped
ReturnsErrorNever(err) == FALSE

\* if err != nil { return err }
ReturnsError(err) == err # NoErr

\* the innermost call lists its directory:
\* files, err := client.sftpClient.ReadDir(normalizedPath), with its retry
WalkList ==
    /\ pc = "wk_list"
    /\ \E out1 \in ReadDirOutcomes(Top.norm), out2 \in ReadDirOutcomes(Top.norm) :
          LET p == Top.norm
              first == Ev("ReadDir", ReadDirError(out1), p)
              second == Ev("ReadDir", ReadDirError(out2), p)
              retry == /\ out1 # "ok"
                       /\ ~SkipsListingError(out1)
                       /\ RetriesListing(p, Top.remote)
              listed == SetTop([Top EXCEPT !.files = Lookup(tree, PathNames(p)).sub])
          IN /\ ~retry => out2 = out1
             /\ IF out1 = "ok"
                THEN /\ Step("wk_visit", NoErr, <<first>>, FALSE)
                     /\ stack' = listed
                     /\ UNCHANGED walkErr
                ELSE IF SkipsListingError(out1)
                THEN /\ Step("wk_ret", NoErr, <<first>>, TRUE)
                     /\ walkErr' = NoErr
                     /\ UNCHANGED stack
                ELSE IF ~retry
                THEN /\ Step("wk_ret", NoErr, <<first>>, TRUE)
                     /\ walkErr' = Wrap("failed to list directory", ReadDirError(out1))
                     /\ UNCHANGED stack
                ELSE IF out2 = "ok"
                THEN /\ Step("wk_visit", NoErr, <<first, second>>, TRUE)
                     /\ stack' = listed
                     /\ UNCHANGED walkErr
                ELSE /\ Step("wk_ret", NoErr, <<first, second>>, TRUE)
                     /\ walkErr' = Wrap("failed to list directory after retry",
                                        ReadDirError(out2))
                     /\ UNCHANGED stack
    /\ UNCHANGED <<sessVars, fileVars, ecVars, xferVars, dirVars, written>>
    /\ UNCHANGED <<tree, walkPath, fsVars, raceVars>>

\* one round of the loop over files: the visitor is called on the entry
\* and, when the entry is a directory, WalkFile is called on it
WalkVisit ==
    /\ pc = "wk_visit"
    /\ IF Top.i > Len(Top.files)
       THEN /\ Step("wk_ret", NoErr, <<>>, FALSE)
            /\ walkErr' = NoErr
            /\ UNCHANGED stack
       ELSE LET file == Top.files[Top.i]
                fullPath == FullPath(Top.norm, file)
            IN \E err \in {NoErr, <<"walkFn">>} :
                  /\ Step(IF ReturnsError(err) THEN "wk_ret"
                          ELSE IF file.dir THEN "wk_list" ELSE "wk_visit",
                          NoErr, <<Ev("walkFn", err, fullPath)>>, err # NoErr)
                  /\ IF ReturnsError(err)
                     THEN /\ walkErr' = err
                          /\ UNCHANGED stack
                     ELSE /\ UNCHANGED walkErr
                          /\ IF file.dir
                             THEN stack' = Append(stack, Frame(fullPath))
                             ELSE stack' = SetTop([Top EXCEPT !.i = Top.i + 1])
    /\ UNCHANGED <<sessVars, fileVars, ecVars, xferVars, dirVars, written>>
    /\ UNCHANGED <<tree, walkPath, fsVars, raceVars>>

\* the innermost call returns walkErr: to the caller of the walk, or to the
\* loop of the call around it, which returns the error too or goes on with
\* the next entry
WalkReturn ==
    /\ pc = "wk_ret"
    /\ LET rest == SubSeq(stack, 1, Len(stack) - 1)
       IN IF rest = <<>>
          THEN /\ Step("idle", walkErr, <<>>, FALSE)
               /\ stack' = rest
               /\ UNCHANGED walkErr
          ELSE IF ReturnsError(walkErr)
          THEN /\ Step("wk_ret", NoErr, <<>>, FALSE)
               /\ stack' = rest
               /\ UNCHANGED walkErr
          ELSE LET f == rest[Len(rest)]
               IN /\ Step("wk_visit", NoErr, <<>>, FALSE)
                  /\ stack' = [rest EXCEPT ![Len(rest)] = [f EXCEPT !.i = f.i + 1]]
                  /\ walkErr' = NoErr
    /\ UNCHANGED <<sessVars, fileVars, ecVars, xferVars, dirVars, written>>
    /\ UNCHANGED <<tree, walkPath, fsVars, raceVars>>

(* -------------------- remote filesystem operations --------------------- *)
\* the operations, each with the call it makes on client.sftpClient and the
\* message it wraps the error of that call in
ListOps == {"List", "ListDirs", "ListFiles", "ListFilesAndFolders"}
ExistsOps == {"FolderExists", "FileExists"}
FsOps == {"RemoveFile", "MoveFile", "MoveDir", "MakeDir", "RemoveDir", "FileInfo"}
         \cup ListOps \cup ExistsOps

FsLibraryCall(name) ==
    CASE name = "RemoveFile" -> "Remove"
      [] name \in {"MoveFile", "MoveDir"} -> "Rename"
      [] name \in ListOps -> "ReadDir"
      [] name = "MakeDir" -> "Mkdir"
      [] name = "RemoveDir" -> "RemoveDirectory"
      [] OTHER -> "Stat"

FsMessage(name) ==
    CASE name = "RemoveFile" -> "failed to remove remote file"
      [] name = "MoveFile" -> "failed to move remote file"
      [] name = "MoveDir" -> "failed to move directory"
      [] name \in ListOps -> "failed to list directory"
      [] name = "MakeDir" -> "failed to create directory"
      [] name = "RemoveDir" -> "failed to remove directory"
      [] OTHER -> "failed to get file info"

\* the remote paths the operations are called on
FsPaths == {<<"a">>, <<"b">>, <<"a", "/", "b">>}
\* the order in which the server lists them
FsOrder == <<<<"a">>, <<"a", "/", "b">>, <<"b">>>>

Parent(p) == Join(p, <<".", ".">>)
BaseName(p) == Split(p)[Len(Split(p))]
FsHas(p) == ServerHas(p) \/ p \in files
FsIsDir(p) == ServerHas(p)
Children(p) == {q \in FsPaths : Parent(q) = p /\ FsHas(q)}

\* what the server answers to a library call on path p (and new path q, for
\* Rename) that reaches it and that it does not deny: "ok" or the kind of
\* the error.  A directory that holds an entry is not renamed here: the entry
\* would get a path outside FsPaths.
ServerAnswer(call, p, q) ==
    CASE call = "Stat" -> IF FsHas(p) THEN "ok" ELSE "notexist"
      [] call = "ReadDir" ->
            IF FsIsDir(p) THEN "ok" ELSE IF FsHas(p) THEN "other" ELSE "notexist"
      [] call = "Remove" ->
            IF ~FsHas(p) THEN "notexist"
            ELSE IF p \in files \/ Children(p) = {} THEN "ok" ELSE "other"
      [] call = "RemoveDirectory" ->
            IF ~FsHas(p) THEN "notexist"
            ELSE IF p \in dirs /\ Children(p) = {} THEN "ok" ELSE "other"
      [] call = "Mkdir" ->
            IF ~FsHas(p) /\ FsIsDir(Parent(p)) THEN "ok" ELSE "other"
      [] OTHER ->
            IF ~FsHas(p) THEN "notexist"
            ELSE IF ~FsHas(q) /\ FsIsDir(Parent(q)) /\ Children(p) = {} THEN "ok"
            ELSE "other"

\* the outcome of the library call on session s: a dead session or network
\* gives an error of its own, the server can deny, else the server answers
FsOutcome(s, call, p, q, netOk, denied) ==
    IF ~RemoteCallOk(s, netOk) THEN "other"
    ELSE IF denied THEN "perm"
    ELSE ServerAnswer(call, p, q)

FsError(call, kind) == IF kind = "ok" THEN NoErr ELSE <<call, kind>>

\* what a successful call leaves on the server
FsDirsAfter(call, p, q) ==
    CASE call \in {"Remove", "RemoveDirectory"} -> dirs \ {p}
      [] call = "Mkdir" -> dirs \cup {p}
      [] call = "Rename" -> IF p \in dirs THEN (dirs \ {p}) \cup {q} ELSE dirs
      [] OTHER -> dirs
FsFilesAfter(call, p, q) ==
    CASE call = "Remove" -> files \ {p}
      [] call = "Rename" -> IF p \in files THEN (files \ {p}) \cup {q} ELSE files
      [] OTHER -> files

\* os.FileInfo of path p: Name(), IsDir()
Info(p) == [name |-> BaseName(p), dir |-> FsIsDir(p)]

\* the entries ReadDir(p) returns
ReadDir(p) == SelectSeq([i \in DOMAIN FsOrder |-> Info(FsOrder[i])],
                        LAMBDA e : \E q \in Children(p) : Info(q) = e /\ BaseName(q) = e.name)

\* the entries a listing operation keeps
Keeps(name, e) ==
    CASE name = "ListDirs" -> e.dir
      [] name = "ListFiles" -> ~e.dir
      [] OTHER -> TRUE

\* FolderExists, FileExists answer true unless the path is reported missing
ExistsResultUnlessMissing(kind) == kind # "notexist"

\* return err == nil
ExistsResult(kind) == kind = "ok"

\* an operation that calls ensureConnected first, as the transfers do
FsLivenessChecked(s, netOk) ==
    IF Cardinality(FreeIds(s.h)) >= 2 THEN ensureConnected(s, netOk, "ok")
    ELSE [s |-> s, err |-> NoErr]

\* what the operations do about the session before their call: nothing
FsLiveness(s, netOk) == [s |-> s, err |-> NoErr]

\* one of the remote filesystem operations, on any path
FsCall ==
    \E name \in FsOps, p \in FsPaths, q \in FsPaths, net \in BOOLEAN, denied \in BOOLEAN :
        /\ ops < MaxOps
        /\ ops' = ops + 1
        /\ Begin(name)
        /\ FsLibraryCall(name) # "Rename" => q = p
        /\ LET call == FsLibraryCall(name)
               s == FsLiveness(Session, net).s
               kind == FsOutcome(s, call, p, q, net, denied)
               err == FsError(call, kind)
           IN /\ SetSession(s)
              /\ Record(<<Ev(call, err, p)>>)
              /\ failed' = (kind # "ok")
              /\ dirs' = IF kind = "ok" THEN FsDirsAfter(call, p, q) ELSE dirs
              /\ files' = IF kind = "ok" THEN FsFilesAfter(call, p, q) ELSE files
              /\ IF name \in ExistsOps
                 THEN /\ ret' = NoErr
                      /\ result' = ExistsResult(kind)
                 ELSE /\ ret' = IF kind = "ok" THEN NoErr ELSE Wrap(FsMessage(name), err)
                      /\ result' = IF kind # "ok" THEN NoResult
                                   ELSE IF name \in ListOps
                                   THEN SelectSeq(ReadDir(p), LAMBDA e : Keeps(name, e))
                                   ELSE IF name = "FileInfo" THEN Info(p)
                                   ELSE NoResult
        /\ pc' = "idle"
        /\ ResetEc /\ ResetXfer
        /\ UNCHANGED <<fileVars, path, comps, idx, currentPath, walkVars, raceVars>>

(* --------------------------- concurrent callers ------------------------- *)
\* Two goroutines share one *SFTPClient.  Each runs ReConnect, ensureConnected
\* or the copy of a transfer, a statement at a time; cpc[c] is where caller c
\* stands and loc[c] holds its locals: sshClient and sftpClient of ReConnect,
\* and conn, the sftp handle its transfer copies over.  When mutexed, a
\* caller holds the lock of the callers' own mutex from the start of an
\* operation to its return.
Callers == {1, 2}
NoLocals == [ssh |-> NIL, sftp |-> NIL, conn |-> NIL]

\* the caller may start an operation: nobody holds the mutex, if there is one
CanEnter == mutexed => lock = 0
Enter(c) == lock' = IF mutexed THEN c ELSE lock
Leave == lock' = 0

\* where caller c goes and what its locals become
Goto(c, where, locals) ==
    /\ cpc' = [cpc EXCEPT ![c] = where]
    /\ loc' = [loc EXCEPT ![c] = locals]

RaceFrame == UNCHANGED <<client, keySource, fileVars, callVars, ecVars, xferVars,
                         dirVars, walkVars, fsVars, mutexed>>

\* the Close call that is left out
KeepsPrevious(h, id) == h

\* if client.sftpClient != nil { client.sftpClient.Close() }, and the same
\* for client.sshClient
ClosePrevious(h, id) == CloseHandle(h, id)

\* a caller calls ReConnect
RaceReConnect(c) ==
    /\ cpc[c] = "idle" /\ CanEnter
    /\ Enter(c)
    /\ Goto(c, "rc_close_sftp", NoLocals)
    /\ UNCHANGED <<sshClient, sftpClient, handles>>
    /\ RaceFrame

\* a caller calls ensureConnected: isConnected, and ReConnect if it fails
RaceEnsureConnected(c) ==
    /\ cpc[c] = "idle" /\ CanEnter
    /\ \E net \in BOOLEAN :
          IF isConnected(Session, net)
          THEN /\ Goto(c, "idle", NoLocals)
               /\ UNCHANGED lock
          ELSE /\ Goto(c, "rc_close_sftp", NoLocals)
               /\ Enter(c)
    /\ UNCHANGED <<sshClient, sftpClient, handles>>
    /\ RaceFrame

RaceCloseSftp(c) ==
    /\ cpc[c] = "rc_close_sftp"
    /\ handles' = ClosePrevious(handles, sftpClient)
    /\ Goto(c, "rc_close_ssh", loc[c])
    /\ UNCHANGED <<sshClient, sftpClient, lock>>
    /\ RaceFrame

RaceCloseSsh(c) ==
    /\ cpc[c] = "rc_close_ssh"
    /\ handles' = ClosePrevious(handles, sshClient)
    /\ Goto(c, "rc_dial", loc[c])
    /\ UNCHANGED <<sshClient, sftpClient, lock>>
    /\ RaceFrame

\* sshClient, err := ssh.Dial(...): a new transport, or the error returned
RaceDial(c) ==
    /\ cpc[c] = "rc_dial"
    /\ \E ok \in BOOLEAN :
          IF ok
          THEN /\ FreeIds(handles) # {}
               /\ handles' = [handles EXCEPT ![NewId(handles)] = "open"]
               /\ Goto(c, "rc_new", [loc[c] EXCEPT !.ssh = NewId(handles)])
               /\ UNCHANGED lock
          ELSE /\ UNCHANGED handles
               /\ Goto(c, "idle", NoLocals)
               /\ Leave
    /\ UNCHANGED <<sshClient, sftpClient>>
    /\ RaceFrame

\* sftpClient, err := sftp.NewClient(sshClient); on failure sshClient.Close()
RaceNewClient(c) ==
    /\ cpc[c] = "rc_new"
    /\ \E ok \in BOOLEAN :
          IF ok
          THEN /\ FreeIds(handles) # {}
               /\ handles' = [handles EXCEPT ![NewId(handles)] = "open"]
               /\ Goto(c, "rc_set_ssh", [loc[c] EXCEPT !.sftp = NewId(handles)])
               /\ UNCHANGED lock
          ELSE /\ handles' = CloseHandle(handles, loc[c].ssh)
               /\ Goto(c, "idle", NoLocals)
               /\ Leave
    /\ UNCHANGED <<sshClient, sftpClient>>
    /\ RaceFrame

\* client.sshClient = sshClient
RaceSetSsh(c) ==
    /\ cpc[c] = "rc_set_ssh"
    /\ sshClient' = loc[c].ssh
    /\ Goto(c, "rc_set_sftp", loc[c])
    /\ UNCHANGED <<sftpClient, handles, lock>>
    /\ RaceFrame

\* client.sftpClient = sftpClient; return nil
RaceSetSftp(c) ==
    /\ cpc[c] = "rc_set_sftp"
    /\ sftpClient' = loc[c].sftp
    /\ Goto(c, "idle", NoLocals)
    /\ Leave
    /\ UNCHANGED <<sshClient, handles>>
    /\ RaceFrame

\* a caller's transfer has opened its remote file over the open pair and
\* starts to copy
RaceTransfer(c) ==
    /\ cpc[c] = "idle" /\ CanEnter
    /\ RemoteCallOk(Session, TRUE)
    /\ Enter(c)
    /\ Goto(c, "xfer", [NoLocals EXCEPT !.conn = sftpClient])
    /\ UNCHANGED <<sshClient, sftpClient, handles>>
    /\ RaceFrame

\* the copy ends and the transfer returns
RaceTransferDone(c) ==
    /\ cpc[c] = "xfer"
    /\ Goto(c, "idle", NoLocals)
    /\ Leave
    /\ UNCHANGED <<sshClient, sftpClient, handles>>
    /\ RaceFrame

(* --------------------------- specifications ----------------------------- *)
\* nothing returned yet

\* one caller at a time: no concurrent callers
NoRace == mutexed = FALSE /\ lock = 0 /\ cpc = <<>> /\ loc = <<>>

\* no operation has run yet
InitResults ==
    /\ ret = NoErr
    /\ calls = NoCalls
    /\ errs = NoCalls
    /\ lastErr = NoErr
    /\ log = <<>>
    /\ before = [local |-> NoFile, remote |-> NoFile]
    /\ prev = [op |-> "none", clean |-> FALSE]
    /\ failed = FALSE
    /\ written = 0
    /\ ecN = 0 /\ ecI = 0 /\ ecFrom = "direct"
    /\ retries = 0 /\ fileConn = NIL /\ offset = 0 /\ totalBytesRead = 0
    /\ percent = NoPercent
    /\ result = NoResult

InitFrame == InitResults /\ NoRace

\* no WalkFile call is running
NoWalk == tree = <<>> /\ walkPath = <<>> /\ stack = <<>> /\ walkErr = NoErr

InitCall ==
    /\ pc = "idle"
    /\ op = "none"
    /\ ops = 0
    /\ InitFrame
    /\ path = <<>> /\ comps = <<>> /\ idx = 1 /\ currentPath = <<>>
    /\ NoWalk

\* before NewSFTPClient: no client yet, any key configuration
InitSession ==
    /\ client = FALSE
    /\ keySource \in {"none", "path", "b64"}
    /\ sshClient = NIL
    /\ sftpClient = NIL
    /\ handles = [i \in 1..MaxHandles |-> "none"]
    /\ localFile = NoFile
    /\ remoteFile = NoFile
    /\ remoteDenied = FALSE
    /\ dirs = {}
    /\ files = {}
    /\ InitCall

\* the session operations, in any order
NextSession ==
    \/ NewSFTPClient
    \/ Close
    \/ ReConnectCall
    \/ EnsureConnectedCall
    \/ EnsureRetriesCall
    \/ EcwrAttempt
    \/ EcwrExhausted

SpecSession == InitSession /\ [][NextSession]_vars

\* the client NewSFTPClient has just returned
Connected ==
    /\ client = TRUE
    /\ sshClient = 1
    /\ sftpClient = 2
    /\ handles = [i \in 1..MaxHandles |-> IF i <= 2 THEN "open" ELSE "none"]

\* a connected client that authenticates by password (the key sources are
\* exercised by SpecSession), in front of any local and remote file
Init ==
    /\ Connected
    /\ keySource = "none"
    /\ localFile \in Files
    /\ remoteFile \in Files
    /\ remoteDenied \in BOOLEAN
    /\ dirs = {}
    /\ files = {}
    /\ InitCall

\* the transfers, in any order, with the reconnects they make
Next ==
    \/ Close
    \/ EcwrAttempt
    \/ EcwrExhausted
    \/ DownloadBegin
    \/ DownloadStat
    \/ DownloadCopy
    \/ DownloadProgressChunk
    \/ UploadBegin
    \/ UploadStat
    \/ UploadCopy
    \/ UploadProgressChunk

Spec == Init /\ [][Next]_vars

\* one download, on a connected client with handles enough for every
\* reconnect a download can make, a local file missing or begun, and a remote
\* file that is missing or has the greatest length, and that the server lets
\* it stat
InitBudget ==
    /\ client = TRUE
    /\ sshClient = 1
    /\ sftpClient = 2
    /\ handles = [i \in 1..MaxBudgetHandles |-> IF i <= 2 THEN "open" ELSE "none"]
    /\ keySource = "none"
    /\ localFile \in {NoFile, File(Data(1))}
    /\ remoteFile \in {NoFile, File(Data(MaxLen))}
    /\ remoteDenied = FALSE
    /\ dirs = {}
    /\ files = {}
    /\ pc = "idle"
    /\ op = "none"
    /\ ops = MaxOps - 1
    /\ InitFrame
    /\ path = <<>> /\ comps = <<>> /\ idx = 1 /\ currentPath = <<>>
    /\ NoWalk

NextBudget ==
    \/ DownloadBegin
    \/ EcwrAttempt
    \/ EcwrExhausted
    \/ DownloadStat
    \/ DownloadCopy
    \/ DownloadProgressChunk

\* the code of a download that has started keeps running: no step of it
\* waits for anything but the return of its own calls
SpecBudget == InitBudget /\ [][NextBudget]_vars /\ WF_vars(NextBudget)

\* remote directory trees a server can hold: every directory has its parent
DirTrees ==
    {{}, {<<"a">>}, {<<"b">>}, {<<"a">>, <<"b">>}, {<<"a">>, <<"a", "/", "b">>},
     {<<"a">>, <<"b">>, <<"a", "/", "b">>}}

\* CreateRemoteDirRecursive(remoteBasePath) has just been called, with any
\* path, on a connected client in front of any of the directory trees:
\* dirs := strings.Split(remoteBasePath, "/"); var currentPath string
InitDir ==
    /\ Connected
    /\ keySource = "none"
    /\ localFile = NoFile
    /\ remoteFile = NoFile
    /\ remoteDenied = FALSE
    /\ dirs \in DirTrees
    /\ files = {}
    /\ path \in Paths
    /\ comps = Split(path)
    /\ idx = 1
    /\ currentPath = <<>>
    /\ pc = "crd"
    /\ op = "CreateRemoteDirRecursive"
    /\ ops = 1
    /\ InitFrame
    /\ NoWalk

NextDir ==
    \/ CreateDirStep
    \/ CreateDirDone

SpecDir == InitDir /\ [][NextDir]_vars

\* WalkFile(remotePath, walkFn) has just been called on a connected client,
\* with any start path, in front of any tree
InitWalk ==
    /\ Connected
    /\ keySource = "none"
    /\ localFile = NoFile
    /\ remoteFile = NoFile
    /\ remoteDenied = FALSE
    /\ dirs = {}
    /\ files = {}
    /\ path = <<>> /\ comps = <<>> /\ idx = 1 /\ currentPath = <<>>
    /\ tree \in WalkTrees
    /\ walkPath \in WalkStarts
    /\ stack = <<Frame(walkPath)>>
    /\ walkErr = NoErr
    /\ pc = "wk_list"
    /\ op = "WalkFile"
    /\ ops = 1
    /\ InitFrame

NextWalk ==
    \/ WalkList
    \/ WalkVisit
    \/ WalkReturn

SpecWalk == InitWalk /\ [][NextWalk]_vars

\* the files a server can hold beside the directories ds: a file is no
\* directory, and the directory it is in exists
FsFileSets(ds) ==
    {fs \in SUBSET (FsPaths \ ds) :
        \A f \in fs : Join(f, <<".", ".">>) = <<".">> \/ Join(f, <<".", ".">>) \in ds}

\* a connected client in front of any of the servers, with two operations
\* to come
InitFs ==
    /\ Connected
    /\ keySource = "none"
    /\ localFile = NoFile
    /\ remoteFile = NoFile
    /\ remoteDenied = FALSE
    /\ dirs \in DirTrees
    /\ files \in FsFileSets(dirs)
    /\ pc = "idle"
    /\ op = "none"
    /\ ops = MaxOps - 2
    /\ InitFrame
    /\ path = <<>> /\ comps = <<>> /\ idx = 1 /\ currentPath = <<>>
    /\ NoWalk

\* the remote filesystem operations, in any order, before and after Close
NextFs ==
    \/ FsCall
    \/ Close

SpecFs == InitFs /\ [][NextFs]_vars

\* a connected client shared by two callers, with or without a mutex of
\* their own around every operation
InitRace ==
    /\ client = TRUE
    /\ sshClient = 1
    /\ sftpClient = 2
    /\ handles = [i \in 1..MaxRaceHandles |-> IF i <= 2 THEN "open" ELSE "none"]
    /\ keySource = "none"
    /\ localFile = NoFile
    /\ remoteFile = NoFile
    /\ remoteDenied = FALSE
    /\ dirs = {}
    /\ files = {}
    /\ pc = "idle"
    /\ op = "none"
    /\ ops = 0
    /\ InitResults
    /\ path = <<>> /\ comps = <<>> /\ idx = 1 /\ currentPath = <<>>
    /\ NoWalk
    /\ mutexed \in BOOLEAN
    /\ lock = 0
    /\ cpc = [c \in Callers |-> "idle"]
    /\ loc = [c \in Callers |-> NoLocals]

NextRace ==
    \E c \in Callers :
        \/ RaceReConnect(c)
        \/ RaceEnsureConnected(c)
        \/ RaceCloseSftp(c)
        \/ RaceCloseSsh(c)
        \/ RaceDial(c)
        \/ RaceNewClient(c)
        \/ RaceSetSsh(c)
        \/ RaceSetSftp(c)
        \/ RaceTransfer(c)
        \/ RaceTransferDone(c)

SpecRace == InitRace /\ [][NextRace]_vars

(* ================================ claims ================================ *)
\* err carries cause: cause is err or what err wraps
Carries(err, cause) ==
    /\ Len(cause) <= Len(err)
    /\ SubSeq(err, Len(err) - Len(cause) + 1, Len(err)) = cause

OpenHandles == {i \in DOMAIN handles : handles[i] = "open"}

\* C2: in every state that Connect, ReConnect, ensureConnected and Close can
\* reach, ReConnect having succeeded or failed at any step, the client holds
\* both handles or neither: never exactly one of them is nil.
C2_NeverHalfConnected == (sshClient = NIL) <=> (sftpClient = NIL)

\* a ReConnect has failed at the protocol-handle step, after its dial succeeded
C2_Witness ==
    /\ op = "ReConnect"
    /\ pc = "idle"
    /\ ret = ConnectError("sftp")
    /\ sshClient # NIL

\* C3, as claimed: after a ReConnect that fails, no handle made by the call is
\* open, the error is returned, and both handles of the client are nil.
C3_FailedReConnectLeavesBothNil ==
    (op = "ReConnect" /\ pc = "idle" /\ errs["ReConnect"] = 1)
        => /\ ret # NoErr
           /\ OpenHandles = {}
           /\ sshClient = NIL
           /\ sftpClient = NIL

\* C7, as claimed: when all n > 0 attempts of ensureConnectedWithRetries(n)
\* fail, the error it returns is, or wraps, the error of the last attempt.
C7_ReturnsLastError ==
    (op = "ensureConnectedWithRetries" /\ pc = "idle" /\ ret # NoErr /\ ecN > 0)
        => Carries(ret, lastErr)

\* C7, amended: ensureConnectedWithRetries(n) calls ensureConnected at most n
\* times; it returns nil at the first attempt that succeeds and makes no
\* attempt after it; when all n attempts fail it returns the error "failed to
\* reconnect after n attempts", which carries the error of no attempt.
C7_RetriesAmended ==
    op = "ensureConnectedWithRetries" =>
        /\ calls["ensureConnected"] <= ecN
        /\ pc = "ecwr" => /\ ret = NoErr
                          /\ errs["ensureConnected"] = calls["ensureConnected"]
        /\ (pc = "idle" /\ ret = NoErr) =>
              /\ calls["ensureConnected"] >= 1
              /\ errs["ensureConnected"] = calls["ensureConnected"] - 1
        /\ (pc = "idle" /\ ret # NoErr) =>
              /\ calls["ensureConnected"] = ecN
              /\ errs["ensureConnected"] = ecN
              /\ ret = EcwrError
              /\ (ecN > 0 => ~Carries(ret, lastErr))

\* all three attempts of ensureConnectedWithRetries(3) have failed
C7_Witness ==
    /\ op = "ensureConnectedWithRetries"
    /\ pc = "idle"
    /\ ecN = 3
    /\ errs["ensureConnected"] = 3
    /\ ret # NoErr
    /\ lastErr = ConnectError("dial")

Size(f) == Len(f.data)
Fatal == <<"failed to copy file to local after 3 retries", "io">>
ReconnectFailed == Wrap("failed to reconnect", EcwrError)
Succeeded(name) == calls[name] - errs[name]

\* C1, as claimed: a successful upload onto an existing remote file no longer
\* than the local file writes exactly localSize - remoteSize bytes and leaves
\* the remote file at size localSize.
C1_UploadResumesToLocalSize ==
    (/\ op \in UploadOps /\ pc = "idle" /\ ret = NoErr
     /\ before.remote.exists
     /\ Size(before.remote) <= Size(localFile))
        => /\ written = Size(localFile) - Size(before.remote)
           /\ Size(remoteFile) = Size(localFile)

\* C4: a download that finds an existing local file of the size the remote
\* stat reports returns nil without opening the remote file and without
\* creating, truncating or appending to the local file.
C4_EqualSizesNoOp ==
    (/\ op \in DownloadOps /\ pc = "idle"
     /\ Succeeded("Stat") = 1 /\ Succeeded("LocalStat") = 1
     /\ before.local.exists
     /\ Size(before.local) = Size(remoteFile))
        => /\ ret = NoErr
           /\ calls["Open"] = 0
           /\ calls["OpenLocal"] = 0
           /\ calls["Copy"] + calls["Chunk"] + calls["EOF"] = 0
           /\ written = 0
           /\ localFile = before.local

\* a download has returned on equal, non-zero sizes
C4_Witness ==
    /\ op \in DownloadOps /\ pc = "idle" /\ ret = NoErr
    /\ Succeeded("Stat") = 1 /\ Succeeded("LocalStat") = 1
    /\ before.local.exists
    /\ Size(before.local) = Size(remoteFile)
    /\ Size(remoteFile) > 0

\* C5: a download that follows a download, both without a failure and with
\* the remote file unchanged in between, leaves the local file as the first
\* one left it: two downloads end with the local content of one.
C5_SecondDownloadChangesNothing ==
    (/\ prev.op \in DownloadOps /\ prev.clean
     /\ op \in DownloadOps /\ pc = "idle" /\ ret = NoErr /\ ~failed)
        => localFile = before.local

\* a second download has run after a first one, on a non-empty remote file
\* that the server lets it stat
C5_Witness ==
    /\ prev.op \in DownloadOps /\ prev.clean
    /\ op \in DownloadOps /\ pc = "idle" /\ ret = NoErr /\ ~failed
    /\ Succeeded("Stat") = 1
    /\ localFile = remoteFile
    /\ Size(localFile) > 0

\* C6: when the remote stat of a download fails with permission denied the
\* download returns nil, writes nothing and leaves the local file as it
\* was, missing or not; with any other stat error it returns an error.
C6_PermissionDeniedSkips ==
    (op \in DownloadOps /\ pc = "idle" /\ errs["Stat"] = 1)
        => IF lastErr = StatError("perm")
           THEN /\ ret = NoErr
                /\ written = 0
                /\ calls["Open"] = 0
                /\ calls["OpenLocal"] = 0
                /\ localFile = before.local
           ELSE /\ ret = Wrap("failed to get remote file info", lastErr)
                /\ localFile = before.local

\* a download was skipped on permission denied, the local file missing
C6_Witness ==
    /\ op \in DownloadOps /\ pc = "idle" /\ errs["Stat"] = 1
    /\ lastErr = StatError("perm")
    /\ ret = NoErr
    /\ ~localFile.exists

\* what DownloadFile does in the step that makes a copy attempt, and in the
\* step in which the reconnect after a failed attempt returns
C8_Steps ==
    /\ (op = "DownloadFile" /\ op' = op /\ calls'["Copy"] = calls["Copy"] + 1) =>
          IF errs'["Copy"] = errs["Copy"]
          THEN pc' = "idle" /\ ret' = NoErr
          ELSE IF errs'["Copy"] < DownloadCopyAttempts
          THEN /\ pc' = "ecwr" /\ ecFrom' = "retry"
               /\ ecN' = DownloadReconnectRetries /\ ecI' = 0
          ELSE pc' = "idle" /\ ret' = Fatal
    /\ (op = "DownloadFile" /\ pc = "ecwr" /\ ecFrom = "retry" /\ pc' # "ecwr") =>
          IF errs'["ensureConnected"] = errs["ensureConnected"]
             /\ calls'["ensureConnected"] = calls["ensureConnected"] + 1
          THEN pc' = "dl_copy" /\ calls' ["Copy"] = calls["Copy"]
          ELSE pc' = "idle" /\ ret' = ReconnectFailed

\* the copy attempts of DownloadFile at any moment
C8_Attempts ==
    op = "DownloadFile" =>
        /\ calls["Copy"] <= DownloadCopyAttempts
        /\ pc = "dl_copy" => (errs["Copy"] = calls["Copy"] /\ calls["Copy"] < DownloadCopyAttempts)
        /\ (pc = "ecwr" /\ ecFrom = "retry") =>
              (errs["Copy"] = calls["Copy"] /\ calls["Copy"] \in {1, 2})
        /\ (pc = "idle" /\ calls["Copy"] >= 1) =>
              \/ ret = NoErr /\ errs["Copy"] = calls["Copy"] - 1
              \/ ret = Fatal /\ errs["Copy"] = DownloadCopyAttempts
              \/ ret = ReconnectFailed /\ errs["Copy"] = calls["Copy"] /\ calls["Copy"] <= 2

\* C8: DownloadFile attempts the copy at most 3 times; after the 1st or 2nd
\* failed copy it runs ensureConnectedWithRetries(3) and attempts the copy
\* again if that succeeds, returns an error at once if it fails; after the 3rd
\* failed copy it returns the fatal transfer error; a copy that succeeds ends
\* the loop, no copy follows it.
C8_CopyRetryLoop == [][C8_Steps]_vars /\ []C8_Attempts

\* the third copy attempt has succeeded after two failed ones
C8_Witness ==
    /\ op = "DownloadFile" /\ pc = "idle" /\ ret = NoErr
    /\ calls["Copy"] = 3
    /\ errs["Copy"] = 2

\* C9: an upload calls ensureConnected exactly once; if that fails it returns
\* the error without any stat, without opening or truncating the remote file;
\* and a failure during the copy is returned at once, with no reconnect and
\* no further write.
C9_UploadNeverRetries ==
    op \in UploadOps =>
        /\ calls["ensureConnected"] = 1
        /\ calls["Copy"] <= 1
        /\ errs["ensureConnected"] = 1 =>
              /\ pc = "idle"
              /\ ret = Wrap("failed to reconnect", lastErr)
              /\ calls["LocalStat"] + calls["Stat"] + calls["OpenLocal"] + calls["Open"] = 0
              /\ calls["Copy"] + calls["Chunk"] = 0
              /\ remoteFile = before.remote
        /\ errs["Copy"] + errs["Chunk"] >= 1 =>
              /\ pc = "idle"
              /\ ret # NoErr
              /\ errs["Copy"] + errs["Chunk"] = 1
              /\ errs["ensureConnected"] = 0

\* the single liveness attempt of an upload onto an existing remote file
\* has failed
C9_Witness ==
    /\ op \in UploadOps /\ pc = "idle"
    /\ errs["ensureConnected"] = 1
    /\ ret # NoErr
    /\ remoteFile.exists /\ Size(remoteFile) > 0

(* --------------------- claims about the directories --------------------- *)
\* the non-empty components of the path of the call
Components == SelectSeq(comps, LAMBDA c : c # <<>>)
\* the j-th accumulated prefix c1/.../cj, as written in the path
Prefix(j) == JoinSep(SubSeq(Components, 1, j))
\* the existence checks of the call so far, in order
Checks == SelectSeq(log, LAMBDA e : e.ev = "FolderExists")

\* every creation call comes right after the check of the same path, which
\* reported it missing; every check that reports a path missing is followed
\* at once by the creation call for it; a failed creation call is the last call
CreatesOnlyMissing ==
    \A i \in DOMAIN log :
        /\ log[i].ev = "MakeDir" =>
              /\ i > 1
              /\ log[i - 1].ev = "FolderExists"
              /\ log[i - 1].arg = log[i].arg
              /\ log[i - 1].err # NoErr
        /\ (log[i].ev = "FolderExists" /\ log[i].err # NoErr) =>
              /\ i < Len(log)
              /\ log[i + 1].ev = "MakeDir"
              /\ log[i + 1].arg = log[i].arg
        /\ (log[i].ev = "MakeDir" /\ log[i].err # NoErr) =>
              (i = Len(log) /\ pc = "idle" /\ ret # NoErr)

\* C10, as claimed: a call that returns nil has checked each accumulated
\* prefix c1, c1/c2, ..., c1/.../ck, in that order, and has created only
\* what a check reported missing.
C10_ChecksEachPrefixAsWritten ==
    (op = "CreateRemoteDirRecursive" /\ pc = "idle" /\ ret = NoErr) =>
        /\ Len(Checks) = Len(Components)
        /\ \A j \in DOMAIN Checks : Checks[j].arg = Prefix(j)
        /\ CreatesOnlyMissing

\* C10, amended: the path checked for the j-th prefix is filepath.Clean of
\* c1/.../cj ("." components dropped, ".." components resolved); the checks
\* are issued in left-to-right order, all k of them unless a creation call
\* fails, which ends the call with an error; a creation call is issued for a
\* path only when its check reports it missing, and before the next check;
\* no creation call is issued when every check reports its path present.
C10_ChecksEachCleanPrefix ==
    op = "CreateRemoteDirRecursive" =>
        /\ Len(Checks) <= Len(Components)
        /\ \A j \in DOMAIN Checks : Checks[j].arg = Clean(Prefix(j))
        /\ CreatesOnlyMissing
        /\ (pc = "idle" /\ ret = NoErr) => Len(Checks) = Len(Components)
        /\ (pc = "idle" /\ ret # NoErr) => errs["MakeDir"] = 1
        /\ errs["FolderExists"] = 0 => calls["MakeDir"] = 0
        /\ calls["FolderExists"] = Len(Checks)

\* a call on a path with a "." component has returned nil after three
\* checks and at least one creation
C10_Witness ==
    /\ op = "CreateRemoteDirRecursive" /\ pc = "idle" /\ ret = NoErr
    /\ path = <<"a", "/", ".", "/", "b">>
    /\ Len(Checks) = 3
    /\ Succeeded("MakeDir") >= 1


(* ------------------------------ WalkFile -------------------------------- *)
\* the calls of the visitor so far, and the listings so far, in order
Visits == SelectSeq(log, LAMBDA e : e.ev = "walkFn")
Listed == SelectSeq(log, LAMBDA e : e.ev = "ReadDir")

RECURSIVE PreOrder(_, _)
\* the entries below a directory in depth-first pre-order, each as the names
\* that lead to it from the directory: an entry, then all that is below it,
\* then its next sibling
PreOrder(l, above) ==
    IF l = <<>> THEN <<>>
    ELSE LET e == Head(l)
             here == Append(above, e.name)
         IN <<here>> \o (IF e.dir THEN PreOrder(e.sub, here) ELSE <<>>)
                     \o PreOrder(Tail(l), above)

\* the entries below the start path, in pre-order
WalkExpected ==
    LET top == Lookup(tree, PathNames(walkPath))
    IN IF top.found /\ top.dir THEN PreOrder(top.sub, <<>>) ELSE <<>>

\* the start path without its leading slash
StripSlash(p) == IF p # <<>> /\ p[1] = "/" THEN Tail(p) ELSE p

\* the start path, with or without its leading slash, joined to the names
JoinedPaths(names) ==
    {walkPath \o <<"/">> \o JoinSep(names), StripSlash(walkPath) \o <<"/">> \o JoinSep(names)}

\* the visitor has been called on the first entries of the pre-order, in that
\* order, and on all of them once the walk has returned
C11_Order ==
    /\ Len(Visits) <= Len(WalkExpected)
    /\ \A i \in DOMAIN Visits :
          PathNames(Visits[i].arg) = PathNames(walkPath) \o WalkExpected[i]
    /\ pc = "idle" => Len(Visits) = Len(WalkExpected)

\* each call of the visitor was given the joined path of its entry
C11_Paths ==
    \A i \in DOMAIN Visits :
        i <= Len(WalkExpected) => Visits[i].arg \in JoinedPaths(WalkExpected[i])

\* C11, as claimed: in a walk without a failed listing and without a visitor
\* error, the visitor is called on the entries below the start path in
\* depth-first pre-order, a directory's entries before its next sibling, and
\* each call is given the start path (leading slash stripped) joined with the
\* names that lead to the entry.
C11_PreOrderWithJoinedPaths ==
    (op = "WalkFile" /\ ~failed) => (C11_Order /\ C11_Paths)

\* C12: once the visitor has returned an error, that call of the visitor is
\* the last call the walk makes: no visitor call and no listing follows it,
\* at any level; every call of WalkFile that is open returns, and the
\* outermost one returns the visitor's error.
C12_VisitorErrorEndsWalk ==
    (op = "WalkFile" /\ errs["walkFn"] > 0)
        => /\ errs["walkFn"] = 1
           /\ log[Len(log)].ev = "walkFn"
           /\ log[Len(log)].err # NoErr
           /\ pc \in {"wk_ret", "idle"}
           /\ walkErr = log[Len(log)].err
           /\ pc = "idle" => ret = log[Len(log)].err

\* the walk has returned the error the visitor gave for an entry two levels
\* down, a directory, with an entry of the level above still to visit
C12_Witness ==
    /\ op = "WalkFile" /\ pc = "idle"
    /\ ret = <<"walkFn">>
    /\ Len(PathNames(log[Len(log)].arg)) = Len(PathNames(walkPath)) + 2
    /\ Lookup(tree, PathNames(log[Len(log)].arg)).dir
    /\ Len(Visits) < Len(WalkExpected)

\* a listing of the log that is the first attempt of its call (the second
\* attempt of a call is the only listing that follows a listing at once),
\* and the path its call of WalkFile was given: the start path, or the path
\* the visitor was called on just before
FirstListings ==
    {i \in DOMAIN log : log[i].ev = "ReadDir" /\ (i > 1 => log[i - 1].ev # "ReadDir")}
GivenPath(i) == IF i = 1 THEN walkPath ELSE log[i - 1].arg
IsBelow(p, q) ==
    /\ Len(PathNames(p)) > Len(PathNames(q))
    /\ SubSeq(PathNames(p), 1, Len(PathNames(q))) = PathNames(q)
ListError == {Wrap("failed to list directory", ReadDirError("other")),
              Wrap("failed to list directory after retry", ReadDirError("perm")),
              Wrap("failed to list directory after retry", ReadDirError("notexist")),
              Wrap("failed to list directory after retry", ReadDirError("other"))}
Aborted(err) ==
    /\ walkErr = err
    /\ pc \in {"wk_ret", "idle"}
    /\ pc = "idle" => ret = err

\* how a walk answers the failures of its listings, Retried(i) telling
\* whether the failed first attempt i is to be followed by a second one:
\*   permission denied, not found: the call returns nil, nothing below its
\*     directory is visited, the walk goes on;
\*   another error, retried: one more listing of the same, normalized path
\*     follows, and the walk is aborted with an error if that fails too;
\*   another error, not retried: the walk is aborted with an error at once;
\*   and a walk is aborted with a listing error in no other case.
ListingFailuresHandled(Retried(_)) ==
    /\ \A i \in FirstListings :
          LET e == log[i]
              kind == e.err[2]
          IN e.err # NoErr =>
                IF kind \in {"perm", "notexist"}
                THEN /\ i = Len(log) => /\ walkErr = NoErr
                                        /\ pc = "idle" => ret = NoErr
                     /\ \A j \in DOMAIN log :
                           j > i => /\ j > i + 1 \/ log[j].ev = "walkFn"
                                    /\ ~IsBelow(log[j].arg, e.arg)
                                    /\ log[j].arg # e.arg
                ELSE IF Retried(i)
                THEN /\ i < Len(log)
                     /\ log[i + 1].ev = "ReadDir"
                     /\ log[i + 1].arg = e.arg
                     /\ e.arg = Normalize(GivenPath(i))
                     /\ log[i + 1].err # NoErr
                           => /\ i + 1 = Len(log)
                              /\ Aborted(Wrap("failed to list directory after retry",
                                              log[i + 1].err))
                ELSE /\ i = Len(log)
                     /\ Aborted(Wrap("failed to list directory", e.err))
    /\ walkErr \in ListError
          => /\ log # <<>>
             /\ log[Len(log)].ev = "ReadDir"
             /\ log[Len(log)].err # NoErr

HadLeadingSlash(i) == Len(GivenPath(i)) > 1 /\ GivenPath(i)[1] = "/"

Installed == {sshClient, sftpClient} \ {NIL}

\* every handle that was created and is not one of the two of the client
\* has been closed
NoLeak == OpenHandles \subseteq Installed

\* a step that puts a new pair into the client leaves the pair it replaces
\* closed
OldPairClosed ==
    <<sshClient, sftpClient>>' # <<sshClient, sftpClient>>
        => \A id \in Installed : handles'[id] = "closed"

\* C14: in every state that NewSFTPClient, ReConnect (succeeding or
\* failing), ensureConnected, ensureConnectedWithRetries and Close reach, no
\* handle is open but the ones installed in the client, and whenever a new
\* pair is installed the old one has been closed.
C14_NoHandleLeak == []NoLeak /\ [][OldPairClosed]_vars

\* a ReConnect has replaced an open pair by a new one
C14_Witness ==
    /\ op = "ReConnect" /\ pc = "idle" /\ ret = NoErr
    /\ sshClient = 3 /\ sftpClient = 4
    /\ handles = <<"closed", "closed", "open", "open">>
    /\ prev.op = "NewSFTPClient"

(* --------------------------- download budget ---------------------------- *)
\* the three attempts of the liveness step have all failed
LivenessStepFailed ==
    /\ calls["ensureConnected"] = 3
    /\ errs["ensureConnected"] = 3
    /\ calls["Copy"] + calls["Chunk"] + calls["EOF"] = 0

RetryBudget ==
    op \in DownloadOps =>
        /\ calls["ensureConnected"] <= 9
        /\ calls["Copy"] <= 3
        /\ calls["Stat"] = 0 => calls["ensureConnected"] <= 3
        /\ LivenessStepFailed =>
              /\ calls["Stat"] + calls["LocalStat"] + calls["Open"] + calls["OpenLocal"] = 0
              /\ localFile = before.local
              /\ pc = "idle" => ret = ReconnectFailed

\* C15: a download makes at most 3 ensureConnected attempts in its liveness
\* step and, when all fail, returns an error without a remote stat and
\* without touching the local file; it makes at most 3 copy attempts and at
\* most 9 ensureConnected attempts in all; and it returns.
C15_DownloadBoundedAndReturns ==
    /\ []RetryBudget
    /\ (op \in DownloadOps /\ pc # "idle") ~> (pc = "idle")

\* a DownloadFile has used its whole budget: 9 ensureConnected attempts,
\* 3 copies, and the fatal error
C15_Witness ==
    /\ op = "DownloadFile" /\ pc = "idle"
    /\ calls["ensureConnected"] = 9
    /\ calls["Copy"] = 3
    /\ ret = Fatal

(* C16: FolderExists and FileExists make one remote stat and answer true
   exactly when it succeeds: every stat error, whatever its kind, gives
   false, and neither operation returns an error. *)
C16_ExistsIffStatSucceeds ==
    (op \in ExistsOps /\ pc = "idle") =>
        /\ ret = NoErr
        /\ calls["Stat"] = 1
        /\ result \in BOOLEAN
        /\ result = (errs["Stat"] = 0)
        /\ result = (lastErr = NoErr)

\* a stat the server denied while every path exists: the answer is false
C16_Witness ==
    /\ op = "FolderExists" /\ pc = "idle"
    /\ lastErr = FsError("Stat", "perm")
    /\ dirs \cup files = FsPaths
    /\ result = FALSE
    /\ ret = NoErr

(* C17: at the start of every copy attempt of DownloadFile, the first and
   each retry after a failed attempt and the reconnect step, the read offset
   of the remote file equals the size of the local file, so that a download
   that returns success after a retry leaves the local file equal to the
   remote file, with no gap and no range copied twice. *)
C17_RetryResumesAtLocalSize ==
    /\ (op = "DownloadFile" /\ pc = "dl_copy") => offset = Size(localFile)
    /\ (op = "DownloadFile" /\ pc = "idle" /\ ret = NoErr /\ calls["Copy"] >= 2)
           => localFile = remoteFile

\* a filesystem operation has returned: what the step did to the session,
\* and what it gave back if the session was dead
FsCallReturned ==
    /\ UNCHANGED <<client, sshClient, sftpClient, handles>>
    /\ calls'["ensureConnected"] = 0 /\ calls'["ReConnect"] = 0
    /\ calls'[FsLibraryCall(op')] = 1
    /\ ~RemoteCallOk(Session, TRUE) =>
          /\ UNCHANGED <<dirs, files>>
          /\ IF op' \in ExistsOps
             THEN ret' = NoErr /\ result' = FALSE
             ELSE /\ ret' = Wrap(FsMessage(op'), lastErr')
                  /\ lastErr' # NoErr
                  /\ result' = NoResult

(* C18: the remote filesystem operations (RemoveFile, MoveFile, MoveDir,
   List, ListFiles, ListDirs, ListFilesAndFolders, MakeDir, RemoveDir,
   FileInfo, FolderExists, FileExists) make no liveness check and no
   reconnect: a call leaves the client's handles as they were, and on a dead
   session it returns the wrapped error of its library call (false for the
   two Exists operations) and changes nothing on the server. *)
C18_FsOpsNeverReconnect == [][op' \in FsOps => FsCallReturned]_vars

\* a listing on the session Close has shut down: the error comes back wrapped
\* and the handles are still the closed ones
C18_Witness ==
    /\ op = "ListDirs" /\ pc = "idle"
    /\ prev.op = "Close"
    /\ handles[sshClient] = "closed" /\ handles[sftpClient] = "closed"
    /\ ret = Wrap(FsMessage("ListDirs"), FsError("ReadDir", "other"))

\* the copy loops of the two progress variants, and the file each one reads
ProgressLoops == {"ul_pcopy", "dl_pcopy"}
ProgressSource == IF op = "UploadFileWithProgress" THEN localFile ELSE remoteFile

\* where the counter stands when the loop starts and when it has reached the
\* end of the source (a transfer resumes when the destination is no longer
\* than the source)
ProgressEnds ==
    /\ (pc = "ul_pcopy" /\ calls["Chunk"] = 0) => totalBytesRead = 0
    /\ (pc = "dl_pcopy" /\ calls["Chunk"] = 0) => totalBytesRead = Size(before.local)
    /\ (op = "DownloadFileWithProgress" /\ pc = "idle" /\ calls["EOF"] = 1
        /\ Size(before.local) <= Size(remoteFile))
           => totalBytesRead = Size(remoteFile)
    /\ (op = "UploadFileWithProgress" /\ pc = "idle" /\ calls["EOF"] = 1
        /\ Size(before.remote) <= Size(localFile))
           => totalBytesRead = Size(localFile) - Size(before.remote)

\* a round of the loop that wrote a chunk adds its size to the counter and
\* prints the counter over the size of the source; the round that leaves the
\* loop changes neither
ProgressStep ==
    /\ (pc \in ProgressLoops /\ pc' = pc) =>
          /\ totalBytesRead' - totalBytesRead \in 1..BufSize
          /\ totalBytesRead' - totalBytesRead = written' - written
          /\ percent' = <<totalBytesRead' * 100, Size(ProgressSource)>>
    /\ (pc \in ProgressLoops /\ pc' # pc) => UNCHANGED <<totalBytesRead, percent>>

(* C19: in the progress variants the byte counter behind the percentage
   starts at 0 for an upload and at the size the local file already has for
   a download, grows by the size of each chunk written (at most 32768), and
   the percentage is the counter over the size of the source; a resumed
   download that succeeds ends with the counter at the remote size, a
   resumed upload with the counter at local size minus remote size. *)
C19_ProgressCounter == []ProgressEnds /\ [][ProgressStep]_vars

\* a download resumed one byte into a file of two, finished: counter 2
C19_Witness ==
    /\ op = "DownloadFileWithProgress" /\ pc = "idle" /\ calls["EOF"] = 1
    /\ Size(before.local) = 1 /\ Size(remoteFile) = 2
    /\ totalBytesRead = 2
    /\ percent = <<200, 2>>

\* the handles the client or a ReConnect under way still refers to
Referenced ==
    {sshClient, sftpClient} \cup {loc[c].ssh : c \in Callers}
                           \cup {loc[c].sftp : c \in Callers}

\* open handles nothing refers to any more: nobody can close them
LeakedHandles == {i \in DOMAIN handles : handles[i] = "open" /\ i \notin Referenced}

\* a transfer is copying over a handle that has been closed under it
InFlightClosed ==
    \E c \in Callers : cpc[c] = "xfer" /\ handles[loc[c].conn] = "closed"

(* C20: without synchronisation of their own two callers can race a
   reconnect: some interleaving of two ReConnect / ensureConnected calls
   leaves an open handle pair the client no longer references, or closes the
   pair the transfer of another caller is using.  With every operation
   serialized by a mutex of the callers neither state is reachable. *)
C20_SerializedCallersSafe ==
    mutexed => (LeakedHandles = {} /\ ~InFlightClosed)

\* no mutex: two ReConnect calls have left a pair open that the client does
\* not hold, and a later reconnect has closed the pair a transfer is using
C20_Witness ==
    /\ ~mutexed
    /\ Cardinality(LeakedHandles) >= 2
    /\ InFlightClosed

\* a download has returned nil after a remote stat that succeeded (so not by
\* the permission-denied skip) and with no call of it having failed
DownloadSucceeded ==
    /\ op \in DownloadOps /\ pc = "idle" /\ ret = NoErr /\ ~failed
    /\ Succeeded("Stat") = 1

(* C21, as claimed: whenever a download returns success other than through
   the permission-denied skip, no failure having occurred, the local file
   has the size of the remote file, whatever size the local file had when
   the download started, sizes above the remote size included. *)
C21_SuccessMeansEqualSizes ==
    DownloadSucceeded => Size(localFile) = Size(remoteFile)

\* the same for local files that start no longer than the remote file
C21_EqualUnlessLocalLonger ==
    (DownloadSucceeded /\ Size(before.local) <= Size(remoteFile))
        => Size(localFile) = Size(remoteFile)

(* C22, as claimed: an upload is idempotent on a complete transfer.  From
   any remote state, a second upload that follows a first one, both without
   a failure and with the local file unchanged in between, leaves the remote
   file with the size and content the first one left: two uploads end with
   the remote file of one. *)
C22_SecondUploadChangesNothing ==
    (/\ prev.op \in UploadOps /\ prev.clean
     /\ op \in UploadOps /\ pc = "idle" /\ ret = NoErr /\ ~failed)
        => remoteFile = before.remote

====
